---- MODULE Spec2Model ----
(***************************************************************************)
(* Automated trading scheduler of the DEBT trading platform:               *)
(* portfolio/n8n_integration.py (TradingScheduler, the Celery tasks        *)
(* process_active_strategies and sync_n8n_executions) and                  *)
(* portfolio/auto_trading_views.py (start/stop of a strategy,              *)
(* generate_strategy_signals).                                             *)
(*                                                                         *)
(* Times are seconds.  Stored timestamps (last_executed, created_at,       *)
(* executed_at) are UTC, as written by timezone.now(); datetime.now() is   *)
(* the naive local wall clock, UTC + tz.                                   *)
(***************************************************************************)
EXTENDS Integers, Sequences, FiniteSets, TLC

VARIABLES
    clock,      \* index of the current instant in Instants
    tz,         \* offset of the process's local time zone from UTC, seconds
    strat,      \* AutoTradingStrategy rows, by strategy id
    cfg,        \* TradingBotConfiguration row of each strategy's owner, or NoConfig
    signals,    \* AutoTradingSignal rows, in creation order (the id is the index)
    engine,     \* the workflow engine's state of the execution of each signal
    logs,       \* AutoTradingLog rows
    gen,        \* the running process_active_strategies task
    sync,       \* the running sync_n8n_executions tasks, by worker
    req,        \* the owner request in flight on a strategy row
    nreq,       \* the number of owner requests made
    nsync,      \* the number of sync_n8n_executions invocations started
    elig,       \* inputs and result of one should_execute_strategy evaluation
    probe       \* inputs and result of the latest call made on its own

vars == <<clock, tz, strat, cfg, signals, engine, logs, gen, sync, req, nreq, nsync, elig, probe>>

----------------------------------------------------------------------------
(* Bounds of the model *)

MaxSignals == 2
MaxGenRuns == 2
MaxRequests == 1
MaxSyncRuns == 2

Strategies == {1, 2}
SyncWorkers == {1, 2}

\* 09:00, 09:03 and 09:06 of day 0 and 09:00 of day 1 (UTC)
Instants == <<32400, 32580, 32760, 118800>>
TzOffsets == {0, 10800}

Stocks == {"AAPL", "MSFT"}

\* The symbols a strategy may track: the stocks, and one without a Stock row
Symbols == Stocks \cup {"ZZZZ"}
MaxSymbols == 6

----------------------------------------------------------------------------
(* Program constants *)

NULL == 0
DaySeconds == 86400
SymbolPrefix == 5
MinInterval == 300
DefaultStart == 32400
DefaultEnd == 57600
MaxRetries == 2

NoConfig == [exists |-> FALSE, is_enabled |-> FALSE,
             trading_start_time |-> 0, trading_end_time |-> 0]

BotConfig(enabled, start, end) ==
    [exists |-> TRUE, is_enabled |-> enabled,
     trading_start_time |-> start, trading_end_time |-> end]

Now == Instants[clock]
LocalNow == Now + tz

TimeOfDay(t) == t % DaySeconds
DateOf(t) == t \div DaySeconds

Min(a, b) == IF a < b THEN a ELSE b

----------------------------------------------------------------------------
(* TradingScheduler *)

\* The end of the window is excluded
is_trading_hours_exclusive(bot_config, current_time) ==
    LET start_time == IF bot_config.exists THEN bot_config.trading_start_time
                      ELSE DefaultStart
        end_time == IF bot_config.exists THEN bot_config.trading_end_time
                    ELSE DefaultEnd
    IN  start_time <= current_time /\ current_time < end_time

is_trading_hours(bot_config, current_time) ==
    LET start_time == IF bot_config.exists THEN bot_config.trading_start_time
                      ELSE DefaultStart
        end_time == IF bot_config.exists THEN bot_config.trading_end_time
                    ELSE DefaultEnd
    IN  start_time <= current_time /\ current_time <= end_time

\* strategy.signals.filter(created_at__date=today, status__in=[EXECUTED, SENT]).count()
today_signals(sigs, s, local_now, offset) ==
    Cardinality({i \in 1..Len(sigs) :
                    /\ sigs[i].strategy = s
                    /\ DateOf(sigs[i].created_at + offset) = DateOf(local_now)
                    /\ sigs[i].status \in {"EXECUTED", "SENT"}})

\* time_since_last < timedelta(minutes=5), with last_executed stripped of its zone
TooFrequent(strategy, local_now) ==
    /\ strategy.last_executed # NULL
    /\ local_now - strategy.last_executed < MinInterval

\* A missing configuration falls back to the default trading hours
should_execute_strategy_default(strategy, bot_config, count, local_now) ==
    IF strategy.status # "ACTIVE" THEN FALSE
    ELSE IF bot_config.exists /\ ~bot_config.is_enabled THEN FALSE
    ELSE IF ~is_trading_hours(bot_config, TimeOfDay(local_now)) THEN FALSE
    ELSE IF count >= strategy.max_daily_trades THEN FALSE
    ELSE IF TooFrequent(strategy, local_now) THEN FALSE
    ELSE TRUE

should_execute_strategy(strategy, bot_config, count, local_now) ==
    IF strategy.status # "ACTIVE" THEN FALSE
    ELSE IF ~bot_config.exists THEN FALSE
    ELSE IF ~bot_config.is_enabled THEN FALSE
    ELSE IF ~is_trading_hours(bot_config, TimeOfDay(local_now)) THEN FALSE
    ELSE IF count >= strategy.max_daily_trades THEN FALSE
    ELSE IF TooFrequent(strategy, local_now) THEN FALSE
    ELSE TRUE

----------------------------------------------------------------------------
(* generate_strategy_signals *)

\* The whole list of tracked symbols
PrefixAll(symbols) == symbols

\* strategy.symbols[:5]
Prefix(symbols) == SubSeq(symbols, 1, Min(Len(symbols), SymbolPrefix))

\* The symbols for which the loop creates a signal.  Stock.DoesNotExist is
\* caught inside the loop (continue); any other exception, raised here by the
\* creation for the failAt-th symbol (0: none), leaves the loop and is caught
\* by the outer handler, which returns what was generated so far.
RECURSIVE GenLoop(_, _, _, _)
GenLoop(symbols, k, failAt, acc) ==
    IF k > Len(symbols) THEN acc
    ELSE IF symbols[k] \notin Stocks THEN GenLoop(symbols, k + 1, failAt, acc)
    ELSE IF k = failAt THEN acc
    ELSE GenLoop(symbols, k + 1, failAt, Append(acc, symbols[k]))

generate_strategy_signals(strategy, failAt) ==
    GenLoop(Prefix(strategy.symbols), 1, failAt, <<>>)

\* The default of AutoTradingSignal.status
DefaultStatus == "PENDING"

\* AutoTradingSignal.objects.create(...): a new row, in the default status
NewSignal(s, symbol, now) ==
    [strategy |-> s, symbol |-> symbol, signal_type |-> "BUY",
     status |-> DefaultStatus, n8n_execution_id |-> NULL, executed_at |-> NULL,
     created_at |-> now, error_message |-> "", execution_response |-> <<>>,
     retries |-> 0]

RECURSIVE NewSignals(_, _, _)
NewSignals(s, created, now) ==
    IF created = <<>> THEN <<>>
    ELSE <<NewSignal(s, Head(created), now)>> \o NewSignals(s, Tail(created), now)

RECURSIVE Repeat(_, _)
Repeat(x, n) == IF n = 0 THEN <<>> ELSE <<x>> \o Repeat(x, n - 1)

LogEntry(s, level, action, now) ==
    [strategy |-> s, level |-> level, category |-> "STRATEGY_EXECUTION",
     action |-> action, timestamp |-> now]

----------------------------------------------------------------------------
(* process_active_strategies *)

NoStep == [id |-> 0, eligible |-> FALSE, failAt |-> 0, created |-> <<>>]

\* runs counts the invocations started; last is the loop's latest iteration
GenIdle == [pc |-> "idle", list |-> <<>>, idx |-> 0, processed |-> 0,
            errors |-> 0, runs |-> 0, last |-> NoStep]

\* AutoTradingStrategy.objects.filter(status='ACTIVE'), evaluated when the loop starts
RECURSIVE ActiveStrategies(_)
ActiveStrategies(ids) ==
    IF ids = {} THEN <<>>
    ELSE LET s == CHOOSE x \in ids : \A y \in ids : x <= y
         IN  (IF strat[s].status = "ACTIVE" THEN <<[id |-> s, row |-> strat[s]]>>
              ELSE <<>>) \o ActiveStrategies(ids \ {s})

GenStart ==
    /\ gen.pc = "idle"
    /\ gen.runs < MaxGenRuns
    /\ gen' = [GenIdle EXCEPT !.pc = "loop", !.list = ActiveStrategies(Strategies),
                              !.idx = 1, !.runs = gen.runs + 1]
    /\ UNCHANGED <<clock, tz, strat, cfg, signals, engine, logs, sync, req, nreq, nsync, elig, probe>>

\* strategy.last_executed = timezone.now()
\* strategy.save(update_fields=['last_executed']), after the generation pass
\* last_executed is saved only when the pass generated a signal
SaveLastExecutedIfSignals(rows, s, created, now) ==
    IF created = <<>> THEN rows ELSE [rows EXCEPT ![s].last_executed = now]

\* strategy.save(): every column is written from the object the loop loaded
SaveLoadedRow(rows, s, created, now) ==
    [rows EXCEPT ![s] = [gen.list[gen.idx].row EXCEPT !.last_executed = now]]

SaveLastExecuted(rows, s, created, now) ==
    [rows EXCEPT ![s].last_executed = now]

\* One iteration of the loop over the loaded strategies
GenStep(failAt) ==
    /\ gen.pc = "loop"
    /\ gen.idx <= Len(gen.list)
    /\ LET s == gen.list[gen.idx].id
           strategy == gen.list[gen.idx].row
           eligible == should_execute_strategy(strategy, cfg[s],
                           today_signals(signals, s, LocalNow, tz), LocalNow)
           created == generate_strategy_signals(strategy, failAt)
       IN  /\ failAt <= Len(Prefix(strategy.symbols))
           /\ eligible => Len(signals) + Len(created) <= MaxSignals
           /\ IF eligible
              THEN /\ signals' = signals \o NewSignals(s, created, Now)
                   /\ engine' = engine \o Repeat("none", Len(created))
                   /\ strat' = SaveLastExecuted(strat, s, created, Now)
                   /\ logs' = logs \cup {LogEntry(s, "INFO", "process_active_strategies", Now)}
                   /\ gen' = [gen EXCEPT !.idx = @ + 1, !.processed = @ + 1,
                                 !.last = [id |-> s, eligible |-> TRUE,
                                           failAt |-> failAt, created |-> created]]
              ELSE /\ failAt = 0
                   /\ gen' = [gen EXCEPT !.idx = @ + 1,
                                 !.last = [id |-> s, eligible |-> FALSE,
                                           failAt |-> 0, created |-> <<>>]]
                   /\ UNCHANGED <<signals, engine, strat, logs>>
    /\ UNCHANGED <<clock, tz, cfg, sync, req, nreq, nsync, elig, probe>>

\* One iteration of the loop in which a call raises: fault names the call,
\* the eligibility check ("eligibility"), strategy.save ("save") or the
\* creation of the INFO entry ("log").  The loop's handler counts the error
\* and creates an ERROR entry; when that creation raises as well (logged =
\* FALSE) the exception leaves the loop and the task returns {'error': ...}.
GenStepFault(fault, failAt, logged) ==
    /\ gen.pc = "loop"
    /\ gen.idx <= Len(gen.list)
    /\ LET s == gen.list[gen.idx].id
           strategy == gen.list[gen.idx].row
           eligible == should_execute_strategy(strategy, cfg[s],
                           today_signals(signals, s, LocalNow, tz), LocalNow)
           created == IF fault = "eligibility" THEN <<>>
                      ELSE generate_strategy_signals(strategy, failAt)
       IN  /\ failAt <= Len(Prefix(strategy.symbols))
           /\ fault = "eligibility" => failAt = 0
           /\ fault # "eligibility" => eligible
           /\ Len(signals) + Len(created) <= MaxSignals
           /\ signals' = signals \o NewSignals(s, created, Now)
           /\ engine' = engine \o Repeat("none", Len(created))
           /\ strat' = IF fault = "log" THEN SaveLastExecuted(strat, s, created, Now)
                       ELSE strat
           /\ logs' = IF logged
                      THEN logs \cup {LogEntry(s, "ERROR", "process_active_strategies", Now)}
                      ELSE logs
           /\ gen' = IF logged
                     THEN [gen EXCEPT !.idx = @ + 1,
                              !.processed = IF fault = "log" THEN @ + 1 ELSE @,
                              !.errors = @ + 1,
                              !.last = [id |-> s, eligible |-> fault # "eligibility",
                                        failAt |-> failAt, created |-> created]]
                     ELSE [gen EXCEPT !.pc = "idle", !.list = <<>>, !.idx = 0,
                              !.processed = IF fault = "log" THEN @ + 1 ELSE @,
                              !.errors = @ + 1, !.last = NoStep]
    /\ UNCHANGED <<clock, tz, cfg, sync, req, nreq, nsync, elig, probe>>

\* The loop is over: the task returns {processed, errors, timestamp}
GenFinish ==
    /\ gen.pc = "loop"
    /\ gen.idx > Len(gen.list)
    /\ gen' = [gen EXCEPT !.pc = "idle", !.list = <<>>, !.idx = 0, !.last = NoStep]
    /\ UNCHANGED <<clock, tz, strat, cfg, signals, engine, logs, sync, req, nreq, nsync, elig, probe>>

----------------------------------------------------------------------------
(* Dispatch of the PENDING signals to the workflow engine *)

\* N8NIntegration.trigger_workflow: the response's json, which holds the new
\* execution's identifier, or None when the request fails; never an exception
trigger_workflow(execution, ok) == IF ok THEN execution ELSE NULL

\* The signal is marked SENT without the response's execution identifier
DispatchOneNoId(sig, i, ok) ==
    IF sig.status # "PENDING" THEN sig
    ELSE IF trigger_workflow(i, ok) # NULL THEN [sig EXCEPT !.status = "SENT"]
    ELSE IF sig.retries + 1 >= MaxRetries
         THEN [sig EXCEPT !.status = "FAILED", !.retries = @ + 1,
                          !.error_message = "dispatch failed"]
         ELSE [sig EXCEPT !.retries = @ + 1]

\* One signal of the batch: the trigger call succeeded (ok) or failed
DispatchOne(sig, i, ok) ==
    IF sig.status # "PENDING" THEN sig
    ELSE IF trigger_workflow(i, ok) # NULL
         THEN [sig EXCEPT !.status = "SENT",
                          !.n8n_execution_id = trigger_workflow(i, ok)]
    ELSE IF sig.retries + 1 >= MaxRetries
         THEN [sig EXCEPT !.status = "FAILED", !.retries = @ + 1,
                          !.error_message = "dispatch failed"]
         ELSE [sig EXCEPT !.retries = @ + 1]

\* The batch ends at the first failed trigger call
DispatchRowsAbort(sigs, outcome) ==
    [i \in 1..Len(sigs) |->
        IF \E j \in 1..(i - 1) : sigs[j].status = "PENDING" /\ ~outcome[j]
        THEN sigs[i]
        ELSE DispatchOne(sigs[i], i, outcome[i])]

\* The rows after one batch over every PENDING signal
DispatchRows(sigs, outcome) ==
    [i \in 1..Len(sigs) |-> DispatchOne(sigs[i], i, outcome[i])]

\* One batch over every PENDING signal; outcome[i] is the trigger call's result
DispatchBatch(outcome) ==
    /\ \E i \in 1..Len(signals) : signals[i].status = "PENDING"
    /\ \A i \in 1..Len(signals) : signals[i].status # "PENDING" => outcome[i]
    /\ signals' = DispatchRows(signals, outcome)
    /\ engine' = [i \in 1..Len(signals) |->
                     IF signals[i].status = "PENDING" /\ signals'[i].status = "SENT"
                     THEN "running" ELSE engine[i]]
    /\ UNCHANGED <<clock, tz, strat, cfg, logs, gen, sync, req, nreq, nsync, elig, probe>>

\* The workflow engine finishes an execution, with success or with failure
EngineFinish(i, success) ==
    /\ engine[i] = "running"
    /\ engine' = [engine EXCEPT ![i] = IF success THEN "success" ELSE "failure"]
    /\ UNCHANGED <<clock, tz, strat, cfg, signals, logs, gen, sync, req, nreq, nsync, elig, probe>>

----------------------------------------------------------------------------
(* sync_n8n_executions *)

SyncIdle == [pc |-> "idle", list |-> <<>>, idx |-> 0, updated |-> 0]

\* The 'error' key of a response that has none
NoError == "(no error key)"

\* get_execution_status returned None
NoResponse == [ok |-> FALSE, finished |-> FALSE, success |-> FALSE, error |-> NoError]

\* N8NIntegration.get_execution_status: the response's json, or None when the
\* request fails (reachable = FALSE)
get_execution_status(execution_id, reachable) ==
    IF ~reachable THEN NoResponse
    ELSE [ok |-> TRUE,
          finished |-> engine[execution_id] \in {"success", "failure"},
          success |-> engine[execution_id] = "success",
          error |-> NoError]

\* Every signal that has an execution id, whatever its status
RECURSIVE SignalsWithExecution(_, _)
SignalsWithExecution(sigs, i) ==
    IF i > Len(sigs) THEN <<>>
    ELSE (IF sigs[i].n8n_execution_id # NULL
          THEN <<[id |-> i, row |-> sigs[i]]>> ELSE <<>>)
         \o SignalsWithExecution(sigs, i + 1)

\* AutoTradingSignal.objects.filter(status='SENT', n8n_execution_id__isnull=False)
RECURSIVE SentSignals(_, _)
SentSignals(sigs, i) ==
    IF i > Len(sigs) THEN <<>>
    ELSE (IF sigs[i].status = "SENT" /\ sigs[i].n8n_execution_id # NULL
          THEN <<[id |-> i, row |-> sigs[i]]>> ELSE <<>>) \o SentSignals(sigs, i + 1)

\* A failed execution puts the signal back in the dispatch queue
ReconciledStatusRequeue(success) == IF success THEN "EXECUTED" ELSE "PENDING"

\* The status a finished execution gives the signal
ReconciledStatus(success) == IF success THEN "EXECUTED" ELSE "FAILED"

\* execution_data as stored in execution_response
Payload(data) == <<data.finished, data.success, data.error>>

\* execution_data.get('error', 'N8N execution failed')
ErrorMessage(data) ==
    IF data.error = NoError THEN "N8N execution failed" ELSE data.error

\* executed_at is left as it was
ReconciledNoTimestamp(row, data, now) ==
    IF data.success
    THEN [row EXCEPT !.status = ReconciledStatus(TRUE),
                     !.execution_response = Payload(data)]
    ELSE [row EXCEPT !.status = ReconciledStatus(FALSE),
                     !.error_message = ErrorMessage(data),
                     !.execution_response = Payload(data)]

\* executed_at is set whatever the execution's result
ReconciledStampsAll(row, data, now) ==
    IF data.success
    THEN [row EXCEPT !.status = ReconciledStatus(TRUE), !.executed_at = now,
                     !.execution_response = Payload(data)]
    ELSE [row EXCEPT !.status = ReconciledStatus(FALSE), !.executed_at = now,
                     !.error_message = ErrorMessage(data),
                     !.execution_response = Payload(data)]

\* The loaded signal object after the finished branch, as signal.save() writes it
Reconciled(row, data, now) ==
    IF data.success
    THEN [row EXCEPT !.status = ReconciledStatus(TRUE), !.executed_at = now,
                     !.execution_response = Payload(data)]
    ELSE [row EXCEPT !.status = ReconciledStatus(FALSE),
                     !.error_message = ErrorMessage(data),
                     !.execution_response = Payload(data)]

\* The finished branch changes the loaded object and does not save it
SyncOneUnsaved(row, data, now) ==
    [row |-> IF data.ok /\ data.finished THEN Reconciled(row, data, now) ELSE row,
     saved |-> FALSE]

\* The loop's body on one loaded signal: the object after it, and whether it
\* was saved
SyncOne(row, data, now) ==
    IF data.ok /\ data.finished
    THEN [row |-> Reconciled(row, data, now), saved |-> TRUE]
    ELSE [row |-> row, saved |-> FALSE]

\* The loop ends at the first status query that fails
RECURSIVE SyncLoopAbort(_, _, _, _, _)
SyncLoopAbort(sigs, list, k, reach, now) ==
    IF k > Len(list) \/ ~reach[list[k].id] THEN sigs
    ELSE LET data == get_execution_status(list[k].row.n8n_execution_id, TRUE)
             done == SyncOne(list[k].row, data, now)
         IN  SyncLoopAbort(IF done.saved THEN [sigs EXCEPT ![list[k].id] = done.row]
                           ELSE sigs,
                           list, k + 1, reach, now)

\* The rows after the whole loop over the loaded signals, from the k-th on;
\* reach[i] tells whether the status query for signal i is answered
RECURSIVE SyncLoop(_, _, _, _, _)
SyncLoop(sigs, list, k, reach, now) ==
    IF k > Len(list) THEN sigs
    ELSE LET data == get_execution_status(list[k].row.n8n_execution_id,
                                          reach[list[k].id])
             done == SyncOne(list[k].row, data, now)
         IN  SyncLoop(IF done.saved THEN [sigs EXCEPT ![list[k].id] = done.row]
                      ELSE sigs,
                      list, k + 1, reach, now)

\* One invocation of sync_n8n_executions that runs alone, from the query of
\* the SENT signals to the return
SyncRun(reach) ==
    /\ nsync < MaxSyncRuns
    /\ \A i \in 1..Len(signals) :
           (signals[i].status # "SENT" \/ signals[i].n8n_execution_id = NULL) => reach[i]
    /\ nsync' = nsync + 1
    /\ signals' = SyncLoop(signals, SentSignals(signals, 1), 1, reach, Now)
    /\ probe' = [kind |-> "sync", before |-> signals, after |-> signals',
                 engine |-> engine, reach |-> reach,
                 repeated |-> /\ probe.kind = "sync"
                              /\ probe.after = signals
                              /\ probe.engine = engine]
    /\ UNCHANGED <<clock, tz, strat, cfg, engine, logs, gen, sync, req, nreq, elig>>

\* Worker 1 runs the task; worker 2 runs an invocation that overlaps it
SyncStart(w) ==
    /\ sync[w].pc = "idle"
    /\ w # 1 => sync[1].pc = "loop"
    /\ nsync < MaxSyncRuns
    /\ nsync' = nsync + 1
    /\ sync' = [sync EXCEPT ![w] = [SyncIdle EXCEPT !.pc = "loop", !.idx = 1,
                                        !.list = SentSignals(signals, 1)]]
    /\ UNCHANGED <<clock, tz, strat, cfg, signals, engine, logs, gen, req, nreq, elig, probe>>

\* One iteration of the loop over the loaded signals
SyncStep(w, reachable) ==
    /\ sync[w].pc = "loop"
    /\ sync[w].idx <= Len(sync[w].list)
    /\ LET id == sync[w].list[sync[w].idx].id
           row == sync[w].list[sync[w].idx].row
           data == get_execution_status(row.n8n_execution_id, reachable)
           done == SyncOne(row, data, Now)
       IN  IF done.saved
           THEN /\ signals' = [signals EXCEPT ![id] = done.row]
                /\ sync' = [sync EXCEPT ![w].idx = @ + 1, ![w].updated = @ + 1]
           ELSE /\ sync' = [sync EXCEPT ![w].idx = @ + 1]
                /\ UNCHANGED signals
    /\ UNCHANGED <<clock, tz, strat, cfg, engine, logs, gen, req, nreq, nsync, elig, probe>>

\* The loop is over: the task returns {synced: updated_count}
SyncFinish(w) ==
    /\ sync[w].pc = "loop"
    /\ sync[w].idx > Len(sync[w].list)
    /\ sync' = [sync EXCEPT ![w] = SyncIdle]
    /\ UNCHANGED <<clock, tz, strat, cfg, signals, engine, logs, gen, req, nreq, nsync, elig, probe>>

----------------------------------------------------------------------------
(* Owner requests on a strategy row *)

NoRequest == [kind |-> "none", id |-> 0, row |-> <<>>]

\* self.get_object() of start_strategy and stop_strategy, and the strategy
\* object handed to setup_strategy_n8n_integration: the row as loaded
LoadStrategy(kind, s) ==
    /\ req.kind = "none"
    /\ nreq < MaxRequests
    /\ nreq' = nreq + 1
    /\ req' = [kind |-> kind, id |-> s, row |-> strat[s]]
    /\ UNCHANGED <<clock, tz, strat, cfg, signals, engine, logs, gen, sync, nsync, elig, probe>>

\* The strategy is started without the checks of its configuration
start_strategy_unchecked(row) ==
    [saved |-> TRUE, row |-> [row EXCEPT !.status = "ACTIVE"], response |-> 200]

\* start_strategy on the loaded object: the two checks, then the object as
\* strategy.save() writes it, and the status of the response
start_strategy(row) ==
    IF row.symbols = <<>> \/ ~row.portfolio
    THEN [saved |-> FALSE, row |-> row, response |-> 400]
    ELSE [saved |-> TRUE, row |-> [row EXCEPT !.status = "ACTIVE"], response |-> 200]

\* What start_strategy commits: the saved row and the audit entry, or nothing
StartStrategyCommit ==
    /\ req.kind = "start"
    /\ IF start_strategy(req.row).saved
       THEN /\ strat' = [strat EXCEPT ![req.id] = start_strategy(req.row).row]
            /\ logs' = logs \cup {LogEntry(req.id, "INFO", "start_strategy", Now)}
       ELSE UNCHANGED <<strat, logs>>
    /\ req' = NoRequest
    /\ UNCHANGED <<clock, tz, cfg, signals, engine, gen, sync, nreq, nsync, elig>>

\* AutoTradingStrategyViewSet.start_strategy, after get_object()
StartStrategy ==
    /\ StartStrategyCommit
    /\ UNCHANGED probe

\* The same request, its response kept for inspection
StartStrategyAnswered ==
    /\ StartStrategyCommit
    /\ probe' = [kind |-> "start", id |-> req.id, row |-> req.row,
                 response |-> start_strategy(req.row).response]

\* AutoTradingStrategyViewSet.stop_strategy, after get_object()
StopStrategy ==
    /\ req.kind = "stop"
    /\ strat' = [strat EXCEPT ![req.id] = [req.row EXCEPT !.status = "STOPPED"]]
    /\ logs' = logs \cup {LogEntry(req.id, "INFO", "stop_strategy", Now)}
    /\ req' = NoRequest
    /\ UNCHANGED <<clock, tz, cfg, signals, engine, gen, sync, nreq, nsync, elig, probe>>

\* setup_strategy_n8n_integration: the workflow is created and activated
\* (activated = TRUE) and the strategy saved, or a call fails and nothing is saved
SetupIntegration(activated) ==
    /\ req.kind = "setup"
    /\ IF activated
       THEN strat' = [strat EXCEPT ![req.id] = [req.row EXCEPT !.n8n_workflow_id = req.id]]
       ELSE UNCHANGED strat
    /\ req' = NoRequest
    /\ UNCHANGED <<clock, tz, cfg, signals, engine, logs, gen, sync, nreq, nsync, elig, probe>>

----------------------------------------------------------------------------
(* Time *)

Tick ==
    /\ clock < Len(Instants)
    /\ clock' = clock + 1
    /\ UNCHANGED <<tz, strat, cfg, signals, engine, logs, gen, sync, req, nreq, nsync, elig, probe>>

------------------------------------------------------------------------------------------------------------------------------------
(* The system *)

TradingDay == BotConfig(TRUE, DefaultStart, DefaultEnd)

NoEvaluation ==
    [evaluated |-> FALSE, strategy |-> <<>>, bot_config |-> NoConfig, count |-> 0,
     now |-> 0, offset |-> 0, in_hours |-> FALSE, too_frequent |-> FALSE,
     result |-> FALSE]

NoProbe == [kind |-> "none"]

InitStrategy(s) ==
    IF s = 1
    THEN [status |-> "ACTIVE", symbols |-> <<"AAPL", "MSFT">>, portfolio |-> TRUE,
          max_daily_trades |-> 1, cooldown_seconds |-> 600,
          last_executed |-> NULL, n8n_workflow_id |-> NULL]
    ELSE [status |-> "ACTIVE", symbols |-> <<"ZZZZ", "AAPL">>, portfolio |-> TRUE,
          max_daily_trades |-> 2, cooldown_seconds |-> 300,
          last_executed |-> NULL, n8n_workflow_id |-> NULL]

\* The state after construction; the owner of strategy 1 has a configuration,
\* the owner of strategy 2 has one of configs
InitWith(configs) ==
    /\ clock = 1
    /\ tz = 0
    /\ strat = [s \in Strategies |-> InitStrategy(s)]
    /\ cfg \in {[s \in Strategies |-> IF s = 1 THEN TradingDay ELSE c] : c \in configs}
    /\ signals = <<>>
    /\ engine = <<>>
    /\ logs = {}
    /\ gen = GenIdle
    /\ sync = [w \in SyncWorkers |-> SyncIdle]
    /\ req = NoRequest
    /\ nreq = 0
    /\ nsync = 0
    /\ elig = NoEvaluation
    /\ probe = NoProbe

(* The signal pipeline: generation, dispatch, the engine, reconciliation *)

Init == InitWith({NoConfig})

Next ==
    \/ Tick
    \/ GenStart
    \/ \E failAt \in 0..SymbolPrefix : GenStep(failAt)
    \/ GenFinish
    \/ \E outcome \in [1..Len(signals) -> BOOLEAN] : DispatchBatch(outcome)
    \/ \E i \in 1..Len(engine), success \in BOOLEAN : EngineFinish(i, success)
    \/ \E w \in SyncWorkers : SyncStart(w)
    \/ \E w \in SyncWorkers, reachable \in BOOLEAN : SyncStep(w, reachable)
    \/ \E w \in SyncWorkers : SyncFinish(w)

Spec == Init /\ [][Next]_vars

(* The signal pipeline, each invocation of sync_n8n_executions running alone *)

NextRecon ==
    \/ Tick
    \/ GenStart
    \/ \E failAt \in 0..SymbolPrefix : GenStep(failAt)
    \/ GenFinish
    \/ \E outcome \in [1..Len(signals) -> BOOLEAN] : DispatchBatch(outcome)
    \/ \E i \in 1..Len(engine), success \in BOOLEAN : EngineFinish(i, success)
    \/ \E reach \in [1..Len(signals) -> BOOLEAN] : SyncRun(reach)

SpecRecon == Init /\ [][NextRecon]_vars

(* Generation and dispatch, with the owner's requests on the strategy rows *)

InitOwner == InitWith({NoConfig, TradingDay})

NextOwner ==
    \/ Tick
    \/ GenStart
    \/ \E failAt \in 0..SymbolPrefix : GenStep(failAt)
    \/ GenFinish
    \/ \E outcome \in [1..Len(signals) -> BOOLEAN] : DispatchBatch(outcome)
    \/ \E s \in Strategies, kind \in {"start", "stop", "setup"} : LoadStrategy(kind, s)
    \/ StartStrategy
    \/ StopStrategy
    \/ \E activated \in BOOLEAN : SetupIntegration(activated)

SpecOwner == InitOwner /\ [][NextOwner]_vars

(* The periodic tasks of the beat schedule, which has an entry for         *)
(* process_active_strategies and none for a dispatch of the PENDING signals: *)
(* a generation task that can run does run, again and again; nothing makes   *)
(* a dispatch run.                                                           *)

\* The beat starts the task once more; invocations are no longer counted
GenStartAgain ==
    /\ gen.pc = "idle"
    /\ gen.runs = MaxGenRuns
    /\ gen' = [GenIdle EXCEPT !.pc = "loop", !.list = ActiveStrategies(Strategies),
                              !.idx = 1, !.runs = gen.runs]
    /\ UNCHANGED <<clock, tz, strat, cfg, signals, engine, logs, sync, req, nreq,
                   nsync, elig, probe>>

ProcessActiveStrategies ==
    \/ GenStart
    \/ GenStartAgain
    \/ \E failAt \in 0..SymbolPrefix : GenStep(failAt)
    \/ GenFinish

\* 09:00 to 09:05
EarlySession == BotConfig(TRUE, DefaultStart, DefaultStart + MinInterval)

\* Only the owner of strategy 2 has a configuration
InitBeat ==
    /\ clock = 1
    /\ tz = 0
    /\ strat = [s \in Strategies |-> InitStrategy(s)]
    /\ cfg = [s \in Strategies |-> IF s = 2 THEN EarlySession ELSE NoConfig]
    /\ signals = <<>>
    /\ engine = <<>>
    /\ logs = {}
    /\ gen = GenIdle
    /\ sync = [w \in SyncWorkers |-> SyncIdle]
    /\ req = NoRequest
    /\ nreq = 0
    /\ nsync = 0
    /\ elig = NoEvaluation
    /\ probe = NoProbe

NextBeat ==
    \/ Tick
    \/ ProcessActiveStrategies
    \/ \E outcome \in [1..Len(signals) -> BOOLEAN] : DispatchBatch(outcome)

SpecBeat ==
    InitBeat /\ [][NextBeat]_vars /\ WF_vars(Tick) /\ WF_vars(ProcessActiveStrategies)

(* process_active_strategies with calls that raise *)

NextBatch ==
    \/ Tick
    \/ GenStart
    \/ \E failAt \in 0..SymbolPrefix : GenStep(failAt)
    \/ \E fault \in {"eligibility", "save", "log"}, failAt \in 0..SymbolPrefix,
          logged \in BOOLEAN : GenStepFault(fault, failAt, logged)
    \/ GenFinish

SpecBatch == InitOwner /\ [][NextBatch]_vars

----------------------------------------------------------------------------
(* should_execute_strategy as a function of its inputs *)

\* 08:59, 09:00, 12:00, 16:00, 16:00:30 and 16:01 (UTC)
EligTimes == {32340, 32400, 43200, 57600, 57630, 57660}
EligElapsed == {0, 180, 300, 360, 600}
EligCooldowns == {0, 300, 600}
EligCounts == 0..2
\* no configuration, 09:00-16:00 disabled and enabled, 12:00-19:00 enabled
EligConfigs == {NoConfig, BotConfig(FALSE, DefaultStart, DefaultEnd), TradingDay,
                BotConfig(TRUE, 43200, 68400)}

EligStrategy(status, max_daily_trades, cooldown_seconds, last_executed, symbols) ==
    [status |-> status, symbols |-> symbols, portfolio |-> TRUE,
     max_daily_trades |-> max_daily_trades, cooldown_seconds |-> cooldown_seconds,
     last_executed |-> last_executed, n8n_workflow_id |-> NULL]

\* One call of should_execute_strategy at UTC instant now in zone offset, with
\* count signals of today SENT or EXECUTED
Evaluate(strategy, bot_config, count, now, offset) ==
    /\ elig' = [evaluated |-> TRUE, strategy |-> strategy, bot_config |-> bot_config,
                count |-> count, now |-> now, offset |-> offset,
                in_hours |-> is_trading_hours(bot_config, TimeOfDay(now + offset)),
                too_frequent |-> TooFrequent(strategy, now + offset),
                result |-> should_execute_strategy(strategy, bot_config, count,
                                                   now + offset)]
    /\ UNCHANGED <<clock, tz, strat, cfg, signals, engine, logs, gen, sync, req,
                   nreq, nsync, probe>>

Forget ==
    /\ elig.evaluated
    /\ elig' = NoEvaluation
    /\ UNCHANGED <<clock, tz, strat, cfg, signals, engine, logs, gen, sync, req,
                   nreq, nsync, probe>>

NextElig ==
    \/ /\ ~elig.evaluated
       /\ \E status \in {"ACTIVE", "STOPPED", "PAUSED"}, bot_config \in EligConfigs,
             count \in EligCounts, max \in EligCounts, cooldown \in EligCooldowns,
             now \in EligTimes, offset \in TzOffsets :
               \E last \in {NULL} \cup {now - d : d \in EligElapsed} :
                   Evaluate(EligStrategy(status, max, cooldown, last, <<"AAPL">>), bot_config,
                            count, now, offset)
    \/ Forget

SpecElig == Init /\ [][NextElig]_vars

----------------------------------------------------------------------------
(* generate_strategy_signals as a function of the tracked symbols *)

SymbolLists == UNION {[1..n -> Symbols] : n \in 0..MaxSymbols}

\* One call of generate_strategy_signals(strategy) on a strategy tracking
\* symbols, in which the creation for the failAt-th symbol raises (0: none)
GeneratePass(symbols, failAt) ==
    /\ failAt <= Len(Prefix(symbols))
    /\ probe' = [kind |-> "generate", symbols |-> symbols, failAt |-> failAt,
                 created |-> NewSignals(1,
                     generate_strategy_signals(EligStrategy("ACTIVE", 1, 0, NULL, symbols),
                                               failAt), Now)]
    /\ UNCHANGED <<clock, tz, strat, cfg, signals, engine, logs, gen, sync, req,
                   nreq, nsync, elig>>

Discard ==
    /\ probe.kind # "none"
    /\ probe' = NoProbe
    /\ UNCHANGED <<clock, tz, strat, cfg, signals, engine, logs, gen, sync, req,
                   nreq, nsync, elig>>

NextGenerate ==
    \/ /\ probe.kind = "none"
       /\ \E symbols \in SymbolLists, failAt \in 0..SymbolPrefix :
              GeneratePass(symbols, failAt)
    \/ Discard

SpecGenerate == Init /\ [][NextGenerate]_vars

----------------------------------------------------------------------------
(* The body of the loop of sync_n8n_executions as a function of the loaded *)
(* signal and of the response to its status query                          *)

\* The signals a pass can load: dispatched, with their execution id
SentRows ==
    {DispatchOne(NewSignal(s, x, Instants[1]), i, TRUE) :
        s \in Strategies, x \in Stocks, i \in 1..MaxSignals}

\* None, or a json with finished, success and possibly error
Responses ==
    {NoResponse} \cup
    {[ok |-> TRUE, finished |-> f, success |-> u, error |-> e] :
        f \in BOOLEAN, u \in BOOLEAN, e \in {NoError, "node failed"}}

ReconcileOne(row, data, now) ==
    /\ probe' = [kind |-> "reconcile", row |-> row, data |-> data, now |-> now,
                 result |-> SyncOne(row, data, now)]
    /\ UNCHANGED <<clock, tz, strat, cfg, signals, engine, logs, gen, sync, req,
                   nreq, nsync, elig>>

NextSyncOne ==
    \/ /\ probe.kind = "none"
       /\ \E row \in SentRows, data \in Responses, k \in 1..Len(Instants) :
              ReconcileOne(row, data, Instants[k])
    \/ Discard

SpecSyncOne == Init /\ [][NextSyncOne]_vars

----------------------------------------------------------------------------
(* What an invocation of a periodic task returns and logs *)

MaxCount == 3

Tasks == {"process_active_strategies", "sync_n8n_executions",
          "update_portfolio_values", "cleanup_old_logs", "generate_daily_report"}

\* The keys of the dictionary the task returns: its summary on the normal
\* path, {'error': str(e)} from the task's outer handler
SummaryKeys(task, failed) ==
    IF failed THEN {"error"}
    ELSE IF task = "process_active_strategies" THEN {"processed", "errors", "timestamp"}
    ELSE IF task = "sync_n8n_executions" THEN {"synced"}
    ELSE IF task = "update_portfolio_values" THEN {"updated"}
    ELSE IF task = "cleanup_old_logs" THEN {"deleted"}
    ELSE {"date", "active_strategies", "signals_generated", "signals_executed",
          "success_rate", "timestamp"}

\* The end of an invocation that handled count items, errors of them with an
\* exception (counted by process_active_strategies only): one line for the
\* process's logger (info, or error from the outer handler), the dictionary
\* returned, and no AutoTradingLog row
TaskReturn(task, count, errors, failed) ==
    [task |-> task, count |-> count, errors |-> errors, failed |-> failed,
     keys |-> SummaryKeys(task, failed),
     logger_lines |-> 1,
     audit_entries |-> 0]

FinishTask(task, count, errors, failed) ==
    /\ errors <= count
    /\ probe' = [kind |-> "summary", summary |-> TaskReturn(task, count, errors, failed)]
    /\ UNCHANGED <<clock, tz, strat, cfg, signals, engine, logs, gen, sync, req,
                   nreq, nsync, elig>>

NextSummary ==
    \/ /\ probe.kind = "none"
       /\ \E task \in Tasks, count \in 0..MaxCount, errors \in 0..MaxCount,
             failed \in BOOLEAN : FinishTask(task, count, errors, failed)
    \/ Discard

SpecSummary == Init /\ [][NextSummary]_vars

----------------------------------------------------------------------------
(* cleanup_old_logs, with the other writers of AutoTradingLog *)

MaxCleanups == 2

RetentionDays == 30
Retention == RetentionDays * DaySeconds

Levels == {"DEBUG", "INFO", "WARNING", "ERROR"}

\* Rows written before the first instant: one second more than the retention
\* before it, exactly the retention before it, and exactly the retention
\* before the last instant
OldEntries ==
    {[strategy |-> 0, level |-> l, category |-> "SYSTEM", action |-> "earlier",
      timestamp |-> t] :
        l \in Levels,
        t \in {Instants[1] - Retention - 1, Instants[1] - Retention,
               Instants[Len(Instants)] - Retention}}

\* Every row is deleted once it is old enough, whatever its level
cleanup_all_levels(entries, now) ==
    {e \in entries : ~(e.timestamp < now - Retention)}

\* AutoTradingLog.objects.filter(timestamp__lt=cutoff_date,
\*                               level__in=['DEBUG', 'INFO']).delete()
cleanup_old_logs(entries, now) ==
    {e \in entries : ~(e.timestamp < now - Retention /\ e.level \in {"DEBUG", "INFO"})}

\* One invocation of the task cleanup_old_logs
CleanupOldLogs ==
    /\ probe.kind = "cleanup" => probe.runs < MaxCleanups
    /\ logs' = cleanup_old_logs(logs, Now)
    /\ probe' = [kind |-> "cleanup",
                 runs |-> IF probe.kind = "cleanup" THEN probe.runs + 1 ELSE 1,
                 deleted |-> Cardinality(logs) - Cardinality(logs')]
    /\ UNCHANGED <<clock, tz, strat, cfg, signals, engine, gen, sync, req, nreq,
                   nsync, elig>>

InitCleanup ==
    /\ clock = 1
    /\ tz = 0
    /\ strat = [s \in Strategies |-> InitStrategy(s)]
    /\ cfg = [s \in Strategies |-> IF s = 1 THEN TradingDay ELSE NoConfig]
    /\ signals = <<>>
    /\ engine = <<>>
    /\ logs = OldEntries
    /\ gen = GenIdle
    /\ sync = [w \in SyncWorkers |-> SyncIdle]
    /\ req = NoRequest
    /\ nreq = 0
    /\ nsync = 0
    /\ elig = NoEvaluation
    /\ probe = NoProbe

NextCleanup ==
    \/ Tick
    \/ GenStart
    \/ \E failAt \in 0..SymbolPrefix : GenStep(failAt)
    \/ GenFinish
    \/ \E s \in Strategies, kind \in {"start", "stop"} : LoadStrategy(kind, s)
    \/ StartStrategy
    \/ StopStrategy
    \/ CleanupOldLogs

SpecCleanup == InitCleanup /\ [][NextCleanup]_vars

----------------------------------------------------------------------------
(* n8n_webhook_receiver, with the signal pipeline and one reconciliation worker *)

HttpOk == 200
HttpServerError == 500

\* A request body: 0 is a body that is not JSON, i > 0 a JSON payload about
\* execution i
Payloads == 0..MaxSignals

\* The webhook is taken as the engine's word: the signal of the execution
\* becomes EXECUTED
WebhookMarksExecuted(sigs, payload) ==
    [i \in 1..Len(sigs) |->
        IF sigs[i].n8n_execution_id = payload /\ payload # 0
        THEN [sigs[i] EXCEPT !.status = "EXECUTED"] ELSE sigs[i]]

\* The signal rows after the receiver: json.loads(request.body) and nothing else
WebhookSignals(sigs, payload) == sigs

\* The status of the receiver's response: 200, or 500 from the handler of the
\* exception json.loads raises
WebhookStatus(payload) == IF payload = 0 THEN HttpServerError ELSE HttpOk

n8n_webhook_receiver(payload) ==
    /\ signals' = WebhookSignals(signals, payload)
    /\ probe' = [kind |-> "webhook", valid |-> payload # 0,
                 status |-> WebhookStatus(payload)]
    /\ UNCHANGED <<clock, tz, strat, cfg, engine, logs, gen, sync, req, nreq,
                   nsync, elig>>

NextWebhook ==
    \/ Tick
    \/ GenStart
    \/ \E failAt \in 0..SymbolPrefix : GenStep(failAt)
    \/ GenFinish
    \/ \E outcome \in [1..Len(signals) -> BOOLEAN] : DispatchBatch(outcome)
    \/ \E i \in 1..Len(engine), success \in BOOLEAN : EngineFinish(i, success)
    \/ SyncStart(1)
    \/ \E reachable \in BOOLEAN : SyncStep(1, reachable)
    \/ SyncFinish(1)
    \/ \E payload \in Payloads : n8n_webhook_receiver(payload)

SpecWebhook == Init /\ [][NextWebhook]_vars

----------------------------------------------------------------------------
(* update_portfolio_values as a function of the portfolio and strategy rows *)

Portfolios == {1, 2, 3}

\* The strategy rows of the join: each references one portfolio
Referrers == 1..4

\* The rows of Portfolio JOIN strategy that pass
\* filter(is_active=True, auto_trading_strategies__status='ACTIVE'): one row per
\* (portfolio, strategy) pair, in portfolio order
JoinRows(is_active, ref, status) ==
    LET n == Cardinality(Referrers)
        F[k \in 0..(Cardinality(Portfolios) * n)] ==
            IF k = 0 THEN <<>>
            ELSE LET p == ((k - 1) \div n) + 1
                     s == ((k - 1) % n) + 1
                 IN  IF is_active[p] /\ ref[s] = p /\ status[s] = "ACTIVE"
                     THEN Append(F[k - 1], p) ELSE F[k - 1]
    IN  F[Cardinality(Portfolios) * n]

\* The join rows as they are: one per matching strategy
KeepDuplicates(rows) == rows

\* .distinct(): each portfolio once, first occurrence order
Distinct(rows) ==
    LET F[k \in 0..Len(rows)] ==
            IF k = 0 THEN <<>>
            ELSE IF \E j \in 1..(k - 1) : rows[j] = rows[k]
                 THEN F[k - 1] ELSE Append(F[k - 1], rows[k])
    IN  F[Len(rows)]

\* The loop over the portfolios: update_portfolio_value is called on each, a
\* call that raises is logged and the loop continues
RECURSIVE RefreshLoop(_, _, _)
RefreshLoop(list, failing, acc) ==
    IF list = <<>> THEN acc
    ELSE RefreshLoop(Tail(list), failing,
             [invoked |-> Append(acc.invoked, Head(list)),
              updated |-> IF Head(list) \in failing
                          THEN acc.updated ELSE acc.updated + 1])

update_portfolio_values(is_active, ref, status, failing) ==
    RefreshLoop(Distinct(JoinRows(is_active, ref, status)), failing,
                [invoked |-> <<>>, updated |-> 0])

UpdatePortfolioValues(is_active, ref, status, failing) ==
    /\ probe' = [kind |-> "portfolio", is_active |-> is_active, ref |-> ref,
                 status |-> status, failing |-> failing,
                 result |-> update_portfolio_values(is_active, ref, status,
                                                    failing)]
    /\ UNCHANGED <<clock, tz, strat, cfg, signals, engine, logs, gen, sync, req,
                   nreq, nsync, elig>>

NextPortfolio ==
    \/ /\ probe.kind = "none"
       /\ \E is_active \in [Portfolios -> BOOLEAN],
             ref \in [Referrers -> Portfolios],
             status \in [Referrers -> {"ACTIVE", "STOPPED"}],
             failing \in SUBSET Portfolios :
              UpdatePortfolioValues(is_active, ref, status, failing)
    \/ Discard

SpecPortfolio == Init /\ [][NextPortfolio]_vars

----------------------------------------------------------------------------
(* The signal pipeline with sync_n8n_executions run by the beat scheduler again
   and again *)

\* The beat scheduler starts the task once more: the invocations beyond
\* MaxSyncRuns are not counted
SyncStartAgain ==
    /\ sync[1].pc = "idle"
    /\ nsync = MaxSyncRuns
    /\ sync' = [sync EXCEPT ![1] = [SyncIdle EXCEPT !.pc = "loop", !.idx = 1,
                                        !.list = SentSignals(signals, 1)]]
    /\ UNCHANGED <<clock, tz, strat, cfg, signals, engine, logs, gen, req, nreq,
                   nsync, elig, probe>>

\* The task of the 'sync-n8n-executions' schedule entry, step by step
SyncN8nExecutions ==
    \/ SyncStart(1)
    \/ SyncStartAgain
    \/ \E reachable \in BOOLEAN : SyncStep(1, reachable)
    \/ SyncFinish(1)

\* The loop's iteration on signal i, its status query answered
SyncStepAnswered(i) ==
    /\ sync[1].pc = "loop"
    /\ sync[1].idx <= Len(sync[1].list)
    /\ sync[1].list[sync[1].idx].id = i
    /\ SyncStep(1, TRUE)

NextSyncLive ==
    \/ Tick
    \/ GenStart
    \/ \E failAt \in 0..SymbolPrefix : GenStep(failAt)
    \/ GenFinish
    \/ \E outcome \in [1..Len(signals) -> BOOLEAN] : DispatchBatch(outcome)
    \/ \E i \in 1..Len(engine), success \in BOOLEAN : EngineFinish(i, success)
    \/ SyncN8nExecutions

\* The scheduler keeps running the task; the status query of each signal is
\* answered again and again
SpecSyncLive ==
    /\ InitBeat
    /\ [][NextSyncLive]_vars
    /\ WF_vars(SyncN8nExecutions)
    /\ \A i \in 1..MaxSignals : SF_vars(SyncStepAnswered(i))

----------------------------------------------------------------------------
(* generate_daily_report, with the signal pipeline and one reconciliation worker *)

\* round(executed / generated * 100, 2), in hundredths of a percent
success_rate(executed, generated) ==
    IF generated > 0
    THEN ((executed * 100 * 100 * 2) + generated) \div (2 * generated)
    ELSE 0

\* The report of the local calendar day of local_now
generate_daily_report(rows, sigs, local_now, offset) ==
    LET today == DateOf(local_now)
        strategies_active ==
            Cardinality({s \in Strategies : rows[s].status = "ACTIVE"})
        signals_generated ==
            Cardinality({i \in 1..Len(sigs) :
                            DateOf(sigs[i].created_at + offset) = today})
        signals_executed ==
            Cardinality({i \in 1..Len(sigs) :
                            /\ sigs[i].executed_at # NULL
                            /\ DateOf(sigs[i].executed_at + offset) = today
                            /\ sigs[i].status = "EXECUTED"})
    IN  [date |-> today,
         active_strategies |-> strategies_active,
         signals_generated |-> signals_generated,
         signals_executed |-> signals_executed,
         success_rate |-> success_rate(signals_executed, signals_generated)]

\* The task runs and returns its report
GenerateDailyReport ==
    /\ probe.kind = "none"
    /\ probe' = [kind |-> "report",
                 report |-> generate_daily_report(strat, signals, LocalNow, tz)]
    /\ UNCHANGED <<clock, tz, strat, cfg, signals, engine, logs, gen, sync, req,
                   nreq, nsync, elig>>

NextReport ==
    \/ Tick
    \/ GenStart
    \/ \E failAt \in 0..SymbolPrefix : GenStep(failAt)
    \/ GenFinish
    \/ \E outcome \in [1..Len(signals) -> BOOLEAN] : DispatchBatch(outcome)
    \/ \E i \in 1..Len(engine), success \in BOOLEAN : EngineFinish(i, success)
    \/ SyncStart(1)
    \/ \E reachable \in BOOLEAN : SyncStep(1, reachable)
    \/ SyncFinish(1)
    \/ GenerateDailyReport

SpecReport == Init /\ [][NextReport]_vars

----------------------------------------------------------------------------
(* start_strategy on strategies of any configuration *)

\* Strategy rows with and without tracked symbols, with and without a portfolio
StrategySamples ==
    {[status |-> st, symbols |-> sy, portfolio |-> p, max_daily_trades |-> 1,
      cooldown_seconds |-> MinInterval, last_executed |-> NULL,
      n8n_workflow_id |-> NULL] :
        st \in {"ACTIVE", "STOPPED"}, sy \in {<<>>, <<"AAPL">>}, p \in BOOLEAN}

InitStart ==
    /\ clock = 1
    /\ tz = 0
    /\ strat \in [Strategies -> StrategySamples]
    /\ cfg = [s \in Strategies |-> TradingDay]
    /\ signals = <<>>
    /\ engine = <<>>
    /\ logs = {}
    /\ gen = GenIdle
    /\ sync = [w \in SyncWorkers |-> SyncIdle]
    /\ req = NoRequest
    /\ nreq = 0
    /\ nsync = 0
    /\ elig = NoEvaluation
    /\ probe = NoProbe

NextStart ==
    \/ Tick
    \/ GenStart
    \/ \E failAt \in 0..SymbolPrefix : GenStep(failAt)
    \/ GenFinish
    \/ \E s \in Strategies, kind \in {"start", "stop"} : LoadStrategy(kind, s)
    \/ StartStrategyAnswered
    \/ StopStrategy

SpecStart == InitStart /\ [][NextStart]_vars

----------------------------------------------------------------------------
(* Properties *)

Terminal == {"EXECUTED", "FAILED"}

ForwardPairs == {<<"PENDING", "SENT">>, <<"PENDING", "FAILED">>,
                 <<"SENT", "EXECUTED">>, <<"SENT", "FAILED">>}

\* This step is the generation loop's iteration on strategy s
GenStepOn(s) ==
    /\ gen.pc = "loop"
    /\ gen.idx <= Len(gen.list)
    /\ gen.list[gen.idx].id = s
    /\ gen'.pc = "loop"
    /\ gen'.idx = gen.idx + 1

\* C1: over every interleaving of generation, dispatch and reconciliation, no
\* signal is deleted and each signal's status either stays or moves along
\* PENDING -> SENT -> {EXECUTED, FAILED} (PENDING -> FAILED being the exhausted
\* dispatch): it never regresses, and EXECUTED and FAILED are never left.
C1_ForwardOnly ==
    [][/\ Len(signals') >= Len(signals)
       /\ \A i \in 1..Len(signals) :
             \/ signals'[i].status = signals[i].status
             \/ <<signals[i].status, signals'[i].status>> \in ForwardPairs]_vars

\* Two overlapping reconciliation runs have both written the one finished signal
C1_Witness ==
    /\ \E i \in 1..Len(signals) : signals[i].status = "EXECUTED"
    /\ Cardinality({i \in 1..Len(signals) : signals[i].status \in Terminal}) = 1
    /\ sync[1].updated = 1
    /\ sync[2].updated = 1

\* C2: a write to a signal's row commits only while the row is still SENT (or,
\* for dispatch, PENDING): a row that has reached EXECUTED or FAILED is left
\* as it is, whatever reconciliation run still holds it as SENT.
C2_StaleWriteDiscarded ==
    [][\A i \in 1..Len(signals) :
          signals[i].status \in Terminal => signals'[i] = signals[i]]_vars

\* C3: for every strategy, the signals created on the current day that are
\* SENT or EXECUTED are at most max_daily_trades.
C3_DailyLimit ==
    \A s \in Strategies :
        today_signals(signals, s, LocalNow, tz) <= strat[s].max_daily_trades

\* C4: on a server in UTC, the decision equals the conjunction of the five
\* gates: ACTIVE, configuration present and enabled, time of day inside the
\* window, today's count below max_daily_trades, and no last execution or one
\* at least cooldown_seconds ago.
C4_FiveGates ==
    (elig.evaluated /\ elig.offset = 0) =>
        (elig.result <=>
            /\ elig.strategy.status = "ACTIVE"
            /\ elig.bot_config.exists
            /\ elig.bot_config.is_enabled
            /\ elig.bot_config.trading_start_time <= TimeOfDay(elig.now)
            /\ TimeOfDay(elig.now) <= elig.bot_config.trading_end_time
            /\ elig.count < elig.strategy.max_daily_trades
            /\ \/ elig.strategy.last_executed = NULL
               \/ elig.now - elig.strategy.last_executed
                      >= elig.strategy.cooldown_seconds)

\* C5: on a server in UTC, with last_executed set, the cooldown gate passes
\* exactly when now - last_executed >= the strategy's cooldown_seconds.
C5_CooldownGate ==
    (elig.evaluated /\ elig.offset = 0 /\ elig.strategy.last_executed # NULL) =>
        (~elig.too_frequent <=>
            elig.now - elig.strategy.last_executed >= elig.strategy.cooldown_seconds)

\* C6: the trading-hours gate passes exactly when trading_start_time <= the
\* local time of day <= trading_end_time; with 09:00-16:00 it fails at 08:59,
\* passes at 09:00 and at 16:00 and fails at 16:01; no strategy is found
\* eligible outside the window.
C6_TradingHours ==
    (elig.evaluated /\ elig.bot_config.exists) =>
        LET tod == TimeOfDay(elig.now + elig.offset)
            start == elig.bot_config.trading_start_time
            end == elig.bot_config.trading_end_time
        IN  /\ elig.in_hours <=> (start <= tod /\ tod <= end)
            /\ (start = 32400 /\ end = 57600) =>
                  /\ tod = 32340 => ~elig.in_hours
                  /\ tod = 32400 => elig.in_hours
                  /\ tod = 57600 => elig.in_hours
                  /\ tod = 57660 => ~elig.in_hours
            /\ elig.result => elig.in_hours

\* A strategy is found eligible at the very end of its owner's window
C6_Witness ==
    /\ elig.evaluated
    /\ elig.bot_config.exists
    /\ TimeOfDay(elig.now + elig.offset) = elig.bot_config.trading_end_time
    /\ elig.in_hours
    /\ elig.result

\* C7: a strategy whose owner has no configuration has no signal, and every
\* iteration of the generation loop on it finds it ineligible, creates no
\* signal, leaves its last_executed alone and counts neither a processed
\* strategy nor an error.
C7_NoConfiguration ==
    /\ [](\A i \in 1..Len(signals) : cfg[signals[i].strategy].exists)
    /\ [][\A s \in Strategies :
             (GenStepOn(s) /\ ~cfg[s].exists) =>
                 /\ gen'.last.id = s
                 /\ ~gen'.last.eligible
                 /\ signals' = signals
                 /\ strat'[s].last_executed = strat[s].last_executed
                 /\ gen'.processed = gen.processed
                 /\ gen'.errors = gen.errors]_vars

\* The loop has passed the strategy without a configuration in a batch that
\* generated signals for the other one
C7_Witness ==
    /\ gen.pc = "loop"
    /\ gen.last.id = 2
    /\ ~cfg[2].exists
    /\ ~gen.last.eligible
    /\ signals # <<>>
    /\ strat[2].last_executed = NULL
    /\ gen.processed = 1

\* C8: no strategy's stored last_executed ever decreases.
C8_LastExecutedMonotone ==
    [][\A s \in Strategies :
          strat'[s].last_executed >= strat[s].last_executed]_vars

\* C9: a batch holds each strategy once; the iteration on a strategy found
\* eligible sets its last_executed to now, whatever the number of signals
\* generated, and the iteration on one found ineligible leaves it unchanged;
\* no other strategy row is written.
C9_AdvancedOnce ==
    /\ [](\A i, j \in 1..Len(gen.list) : gen.list[i].id = gen.list[j].id => i = j)
    /\ [][\A s \in Strategies :
             GenStepOn(s) =>
                 /\ gen'.last.id = s
                 /\ strat'[s].last_executed =
                        IF gen'.last.eligible THEN Now ELSE strat[s].last_executed
                 /\ \A u \in Strategies \ {s} : strat'[u] = strat[u]]_vars

\* An eligible strategy whose pass generated no signal has last_executed = now
C9_Witness ==
    /\ gen.pc = "loop"
    /\ gen.last.eligible
    /\ gen.last.created = <<>>
    /\ strat[gen.last.id].last_executed = Now

\* C10: in the generation pass of an eligible strategy, every symbol of the
\* prefix that has a stock, other than one whose creation failed, gets a new
\* PENDING signal.
C10_SymbolIsolation ==
    [][\A s \in Strategies :
          (GenStepOn(s) /\ gen'.last.eligible) =>
              LET prefix == Prefix(gen.list[gen.idx].row.symbols)
              IN  \A k \in 1..Len(prefix) :
                      (prefix[k] \in Stocks /\ k # gen'.last.failAt) =>
                          \E i \in (Len(signals) + 1)..Len(signals') :
                              /\ signals'[i].strategy = s
                              /\ signals'[i].symbol = prefix[k]
                              /\ signals'[i].status = "PENDING"]_vars

\* C11: one generation pass creates one signal for each position of the first
\* 5 tracked symbols on which generation succeeds (the stock exists and the
\* pass was not ended by an earlier failure), none for a later position, and
\* every created signal is PENDING, without an execution.
C11_OnePendingPerSymbol ==
    probe.kind = "generate" =>
        LET failed == /\ probe.failAt # 0
                      /\ probe.symbols[probe.failAt] \in Stocks
            ok == {k \in 1..Len(probe.symbols) :
                      /\ k <= 5
                      /\ probe.symbols[k] \in Stocks
                      /\ failed => k < probe.failAt}
        IN  /\ Len(probe.created) = Cardinality(ok)
            /\ \A x \in Symbols :
                   Cardinality({i \in 1..Len(probe.created) : probe.created[i].symbol = x})
                       = Cardinality({k \in ok : probe.symbols[k] = x})
            /\ \A i \in 1..Len(probe.created) :
                   /\ probe.created[i].status = "PENDING"
                   /\ probe.created[i].n8n_execution_id = NULL
                   /\ probe.created[i].executed_at = NULL

\* A pass over six tracked symbols, all with a stock, has created five signals
C11_Witness ==
    /\ probe.kind = "generate"
    /\ Len(probe.symbols) = 6
    /\ \A k \in 1..6 : probe.symbols[k] \in Stocks
    /\ probe.failAt = 0
    /\ Len(probe.created) = 5

\* C12: a SENT or EXECUTED signal has an execution id and a PENDING one has
\* none; the id is written only by the step that moves the signal from
\* PENDING to SENT, and no later step (reconciliation included) changes it.
C12_ExecutionIdOnce ==
    /\ [](\A i \in 1..Len(signals) :
             /\ signals[i].status \in {"SENT", "EXECUTED"} =>
                    signals[i].n8n_execution_id # NULL
             /\ signals[i].status = "PENDING" => signals[i].n8n_execution_id = NULL)
    /\ [][\A i \in 1..Len(signals) :
             signals'[i].n8n_execution_id # signals[i].n8n_execution_id =>
                 /\ signals[i].status = "PENDING"
                 /\ signals'[i].status = "SENT"
                 /\ signals[i].n8n_execution_id = NULL]_vars

\* A signal dispatched at its second attempt has been reconciled and still
\* has the execution id it was given
C12_Witness ==
    \E i \in 1..Len(signals) :
        /\ signals[i].status = "EXECUTED"
        /\ signals[i].retries = 1
        /\ signals[i].n8n_execution_id = i

\* C14: a dispatch batch attempts every PENDING signal, whatever the result
\* for the others: each one either becomes SENT with an execution id or has
\* its failed attempt counted.
C14_DispatchIsolation ==
    [][(\E i \in 1..Len(signals) :
            signals[i].status = "PENDING" /\ signals'[i] # signals[i]) =>
        \A j \in 1..Len(signals) :
            signals[j].status = "PENDING" =>
                \/ /\ signals'[j].status = "SENT"
                   /\ signals'[j].n8n_execution_id # NULL
                \/ /\ signals'[j].status \in {"PENDING", "FAILED"}
                   /\ signals'[j].retries = signals[j].retries + 1]_vars

\* Of two signals of one generation pass, the first failed to be dispatched
\* and the second was SENT at its first attempt
C14_Witness ==
    /\ Len(signals) = 2
    /\ signals[1].created_at = signals[2].created_at
    /\ signals[1].strategy = signals[2].strategy
    /\ signals[1].status = "PENDING"
    /\ signals[1].retries = 1
    /\ signals[2].status = "SENT"
    /\ signals[2].retries = 0

\* C13: every signal that is PENDING eventually leaves PENDING, SENT by a
\* dispatch or FAILED once its dispatch attempts are exhausted.
C13_LeavesPending ==
    \A i \in 1..MaxSignals :
        [](/\ i <= Len(signals)
           /\ signals[i].status = "PENDING"
           => <>(i <= Len(signals) /\ signals[i].status # "PENDING"))

\* C15: for a loaded SENT signal whose status query answers finished, the
\* loop's body saves the signal as EXECUTED with executed_at = now and the
\* response stored when success is true, and as FAILED with the response's
\* error as error_message (the fixed text when the response has none) when
\* success is false.
C15_FinishedOutcome ==
    (probe.kind = "reconcile" /\ probe.data.ok /\ probe.data.finished) =>
        LET after == probe.result.row
        IN  /\ probe.result.saved
            /\ after.n8n_execution_id = probe.row.n8n_execution_id
            /\ probe.data.success =>
                   /\ after.status = "EXECUTED"
                   /\ after.executed_at = probe.now
                   /\ after.execution_response =
                          <<TRUE, TRUE, probe.data.error>>
            /\ ~probe.data.success =>
                   /\ after.status = "FAILED"
                   /\ after.error_message =
                          IF probe.data.error = NoError THEN "N8N execution failed"
                          ELSE probe.data.error

\* A finished execution without success, whose response names its error, has
\* made the signal FAILED with that error
C15_Witness ==
    /\ probe.kind = "reconcile"
    /\ probe.data.finished
    /\ ~probe.data.success
    /\ probe.data.error = "node failed"
    /\ probe.result.row.status = "FAILED"
    /\ probe.result.row.error_message = "node failed"

\* This step is an iteration of worker w's reconciliation loop
SyncStepOf(w) ==
    /\ sync[w].pc = "loop"
    /\ sync'[w].pc = "loop"
    /\ sync'[w].idx = sync[w].idx + 1

\* C16: an iteration of the reconciliation loop changes no signal other than
\* the one it is on, and leaves that one as it is when its execution has not
\* finished or when the signal is not, or no longer, SENT with an execution id.
C16_ReconciliationFrame ==
    [][\A w \in SyncWorkers :
          SyncStepOf(w) =>
              LET id == sync[w].list[sync[w].idx].id
              IN  /\ \A j \in 1..Len(signals) : j # id => signals'[j] = signals[j]
                  /\ engine[signals[id].n8n_execution_id] \notin {"success", "failure"}
                         => signals'[id] = signals[id]
                  /\ (signals[id].status # "SENT" \/ signals[id].n8n_execution_id = NULL)
                         => signals'[id] = signals[id]]_vars

\* This step is an invocation of the reconciliation loop that follows another
\* one with the signals and the engine as that one left them
SecondRun ==
    /\ probe.kind = "sync"
    /\ nsync' = nsync + 1
    /\ probe'.kind = "sync"
    /\ signals = probe.after
    /\ engine = probe.engine

\* C17: an invocation of the reconciliation loop that follows another one
\* with no change on the engine's side (the state of the executions is the
\* same and no status query is answered that had failed in the first) leaves
\* every signal exactly as the first left it; a signal already EXECUTED or
\* FAILED is not written again.
C17_Idempotent ==
    [][(/\ SecondRun
        /\ \A i \in 1..Len(signals) : probe'.reach[i] => probe.reach[i])
       => signals' = signals]_vars

\* A second invocation in succession has found a signal EXECUTED earlier and
\* has changed nothing
C17_Witness ==
    /\ probe.kind = "sync"
    /\ probe.repeated
    /\ probe.after = probe.before
    /\ \E i \in 1..Len(signals) :
           /\ signals[i].status = "EXECUTED"
           /\ signals[i].executed_at < Now

\* C18: in one invocation of the reconciliation loop, a SENT signal whose
\* status query fails is left as it was, SENT, and every other SENT signal
\* whose query is answered with a finished execution is transitioned:
\* EXECUTED on success, FAILED otherwise.
C18_QueryFailureIsolated ==
    probe.kind = "sync" =>
        \A i \in 1..Len(probe.before) :
            LET old == probe.before[i]
                new == probe.after[i]
            IN  IF old.status = "SENT" /\ old.n8n_execution_id # NULL
                THEN /\ ~probe.reach[i] => (new = old /\ new.status = "SENT")
                     /\ (probe.reach[i] /\ probe.engine[old.n8n_execution_id] = "success")
                            => new.status = "EXECUTED"
                     /\ (probe.reach[i] /\ probe.engine[old.n8n_execution_id] = "failure")
                            => new.status = "FAILED"
                ELSE new = old

\* The query failed for the first of two SENT signals, which stays SENT, and
\* the second, finished, has been made EXECUTED by the same invocation
C18_Witness ==
    /\ probe.kind = "sync"
    /\ Len(probe.before) = 2
    /\ probe.before[1].status = "SENT"
    /\ probe.before[2].status = "SENT"
    /\ ~probe.reach[1]
    /\ probe.engine[1] = "success"
    /\ probe.after[1].status = "SENT"
    /\ probe.after[2].status = "EXECUTED"

\* C19: at no time are two invocations of the reconciliation task running.
C19_SingleFlight ==
    Cardinality({w \in SyncWorkers : sync[w].pc = "loop"}) <= 1

\* C20: whatever call raises in the loop's iteration on one strategy, the
\* generation task leaves its loop only after its iterations on every
\* strategy it loaded.
C20_BatchIsolation ==
    [][(gen.pc = "loop" /\ gen'.pc # "loop") => gen.idx > Len(gen.list)]_vars

\* C21: every finished invocation of a task has a summary with a processed
\* count and an error count, written to the audit log exactly once.
C21_SummaryOnce ==
    probe.kind = "summary" =>
        /\ \E p \in {"processed", "synced", "updated", "deleted", "signals_generated"} :
               p \in probe.summary.keys
        /\ "errors" \in probe.summary.keys
        /\ probe.summary.audit_entries = 1

\* C22: a run of the log cleanup removes the entries that are older than 30
\* days and of level DEBUG or INFO, and only those: every WARNING or ERROR
\* entry and every entry not older than 30 days is still there; no other step
\* removes or changes an entry.
C22_CleanupExact ==
    [][IF probe' # probe
       THEN /\ logs' \subseteq logs
            /\ \A e \in logs :
                   e \in logs' <=> \/ e.level \in {"WARNING", "ERROR"}
                                   \/ Now - e.timestamp <= 30 * 86400
       ELSE logs \subseteq logs']_vars

\* A cleanup has deleted entries and has left an old ERROR entry, an INFO
\* entry exactly 30 days old and an entry written by the generation task
C22_Witness ==
    /\ probe.kind = "cleanup"
    /\ probe.deleted > 0
    /\ \E e \in logs : e.level = "ERROR" /\ Now - e.timestamp > 30 * 86400
    /\ \E e \in logs : e.level = "INFO" /\ Now - e.timestamp = 30 * 86400
    /\ \E e \in logs : e.action = "process_active_strategies"

\* C23: the webhook receiver answers 200 to a body that is JSON and 500 to
\* any other, and handling a webhook changes no signal, no strategy and no
\* audit entry.
C23_WebhookInert ==
    /\ [](probe.kind = "webhook" =>
             probe.status = IF probe.valid THEN 200 ELSE 500)
    /\ [][probe' # probe =>
             /\ signals' = signals
             /\ strat' = strat
             /\ logs' = logs
             /\ engine' = engine]_vars

\* The statement as made: every webhook is answered with 200
C23_AlwaysOk ==
    probe.kind = "webhook" => probe.status = 200

\* A webhook about a SENT signal's execution has been answered with 200 and
\* the signal is still SENT
C23_Witness ==
    /\ probe.kind = "webhook"
    /\ probe.status = 200
    /\ \E i \in 1..Len(signals) :
           /\ signals[i].status = "SENT"
           /\ engine[i] = "success"

\* The number of times the refresh was invoked for portfolio p in the recorded
\* run
Invocations(p) ==
    Cardinality({k \in 1..Len(probe.result.invoked) :
                    probe.result.invoked[k] = p})

HasActiveStrategy(p) ==
    \E s \in Referrers : probe.ref[s] = p /\ probe.status[s] = "ACTIVE"

\* C24: one run of the portfolio-value job invokes the refresh exactly once
\* for every active portfolio referenced by at least one ACTIVE strategy and
\* for no other portfolio, and a refresh that fails does not stop the others:
\* the run counts as updated every invoked portfolio whose refresh succeeded.
C24_RefreshOnce ==
    probe.kind = "portfolio" =>
        /\ \A p \in Portfolios :
               Invocations(p) =
                   IF probe.is_active[p] /\ HasActiveStrategy(p) THEN 1 ELSE 0
        /\ probe.result.updated =
               Cardinality({p \in Portfolios :
                               Invocations(p) = 1 /\ p \notin probe.failing})

\* The statement as made: every portfolio referenced by an ACTIVE strategy is
\* refreshed exactly once, whether or not the portfolio is active
C24_EveryReferenced ==
    probe.kind = "portfolio" =>
        \A p \in Portfolios :
            Invocations(p) = IF HasActiveStrategy(p) THEN 1 ELSE 0

\* A run in which portfolio 1 has two ACTIVE strategies and its refresh fails,
\* portfolio 2 is refreshed after it, and portfolio 3 is referenced only by a
\* STOPPED strategy
C24_Witness ==
    /\ probe.kind = "portfolio"
    /\ probe.is_active = [p \in Portfolios |-> TRUE]
    /\ probe.ref = <<1, 1, 2, 3>>
    /\ probe.status = <<"ACTIVE", "ACTIVE", "ACTIVE", "STOPPED">>
    /\ probe.failing = {1}
    /\ probe.result = [invoked |-> <<1, 2>>, updated |-> 1]

\* C25: an iteration of the generation loop writes only last_executed of the
\* strategy it processes and nothing of any other strategy; a status STOPPED
\* committed by the owner after the loop loaded the strategy as ACTIVE is not
\* reverted, and symbols, limits and workflow id keep their committed values.
C25_TickWritesLastExecutedOnly ==
    [][\A s \in Strategies :
          GenStepOn(s) =>
              /\ strat'[s] = [strat[s] EXCEPT !.last_executed = strat'[s].last_executed]
              /\ \A t \in Strategies \ {s} : strat'[t] = strat[t]]_vars

\* The owner stopped a strategy at one instant and the loop, which had loaded
\* it as ACTIVE, saved its last_executed at a later instant: it is still STOPPED
C25_Witness ==
    \E s \in Strategies :
        /\ strat[s].status = "STOPPED"
        /\ gen.pc = "loop"
        /\ gen.last.id = s
        /\ gen.last.eligible
        /\ strat[s].last_executed = Now
        /\ \E e \in logs :
               /\ e.strategy = s
               /\ e.action = "stop_strategy"
               /\ e.timestamp < Now

\* The signals of strategy s
SignalsOf(sigs, s) == SelectSeq(sigs, LAMBDA r : r.strategy = s)

\* C26: once a strategy's committed status is STOPPED, no step creates a
\* signal for it or advances its last_executed, the steps of a generation
\* loop that loaded it as ACTIVE before the stop included.
C26_NoWorkAfterStop ==
    [][\A s \in Strategies :
          strat[s].status = "STOPPED" =>
              /\ SignalsOf(signals', s) = SignalsOf(signals, s)
              /\ strat'[s].last_executed <= strat[s].last_executed]_vars

\* The engine reports execution i as finished
Finished(i) == engine[i] \in {"success", "failure"}

\* C27: with the reconciliation job scheduled fairly and the status queries
\* answered again and again, every SENT signal whose execution reports
\* finished eventually is EXECUTED or FAILED; and no step, the passing of time
\* included, takes a SENT signal whose execution is not finished out of SENT.
C27_SentResolves ==
    /\ \A i \in 1..MaxSignals :
           (i <= Len(signals) /\ signals[i].status = "SENT" /\ Finished(i))
               ~> (i <= Len(signals) /\ signals[i].status \in Terminal)
    /\ [][\A i \in 1..Len(signals) :
             (signals[i].status = "SENT" /\ ~Finished(i)) =>
                 signals'[i].status = "SENT"]_vars

\* On the next day, after the counted runs of the job, one signal is terminal
\* and another, whose execution is still running, is SENT
C27_Witness ==
    /\ clock = Len(Instants)
    /\ nsync = MaxSyncRuns
    /\ sync[1].pc = "idle"
    /\ \E i, j \in 1..Len(signals) :
           /\ signals[i].status \in Terminal
           /\ Finished(i)
           /\ signals[j].status = "SENT"
           /\ engine[j] = "running"
           /\ signals[j].created_at < Now

\* C28: in every reachable state, over every interleaving of generation,
\* dispatch and overlapping reconciliation runs, a signal's executed_at is set
\* if and only if its status is EXECUTED.
C28_ExecutedAtIffExecuted ==
    \A i \in 1..Len(signals) :
        (signals[i].executed_at # NULL) <=> (signals[i].status = "EXECUTED")

\* One signal is EXECUTED with executed_at set and another is FAILED by
\* reconciliation with executed_at unset
C28_Witness ==
    \E i, j \in 1..Len(signals) :
        /\ signals[i].status = "EXECUTED"
        /\ signals[i].executed_at = Now
        /\ signals[j].status = "FAILED"
        /\ signals[j].n8n_execution_id # NULL
        /\ signals[j].executed_at = NULL

\* C29: the daily report's success rate is executed/generated*100, or 0 when
\* no signal was generated that day, and lies between 0 and 100: the number
\* counted as executed today never exceeds the number counted as generated
\* today.
C29_RateWithinBounds ==
    probe.kind = "report" =>
        /\ probe.report.success_rate =
               success_rate(probe.report.signals_executed,
                            probe.report.signals_generated)
        /\ probe.report.signals_executed <= probe.report.signals_generated
        /\ probe.report.success_rate >= 0
        /\ probe.report.success_rate <= 100 * 100

\* This step is start_strategy answering the request it loaded
StartStep == req.kind = "start" /\ req'.kind = "none"

\* C30: start_strategy makes a strategy ACTIVE only if it has at least one
\* tracked symbol and a linked portfolio; when a check fails it answers with an
\* error, leaves every strategy as it was and writes no audit entry; so every
\* strategy that start_strategy started has a non-empty symbol list.
C30_StartChecks ==
    /\ [][StartStep =>
             IF req.row.symbols = <<>> \/ ~req.row.portfolio
             THEN /\ probe'.response = 400
                  /\ strat' = strat
                  /\ logs' = logs
             ELSE /\ probe'.response = 200
                  /\ strat'[req.id].status = "ACTIVE"
                  /\ strat'[req.id].symbols # <<>>
                  /\ strat'[req.id].portfolio
                  /\ logs' = logs \cup {LogEntry(req.id, "INFO", "start_strategy",
                                                 Now)}]_vars
    /\ [](\A s \in Strategies :
             (\E e \in logs : e.strategy = s /\ e.action = "start_strategy") =>
                 strat[s].symbols # <<>>)

\* A start of a STOPPED strategy without symbols was refused and it is still
\* STOPPED, with no audit entry
C30_Witness ==
    /\ probe.kind = "start"
    /\ probe.response = 400
    /\ probe.row.symbols = <<>>
    /\ probe.row.portfolio
    /\ probe.row.status = "STOPPED"
    /\ strat[probe.id].status = "STOPPED"
    /\ logs = {}

====
